---- MODULE Spec2Model ----
(***************************************************************************)
(* A model of the wasm-rquickjs generator front end:                       *)
(*   crates/wasm-rquickjs/src/lib.rs      generate_wrapper_crate,          *)
(*                                        generate_dts, GeneratorContext   *)
(*   crates/wasm-rquickjs/src/skeleton.rs manifest and skeleton staging    *)
(*   src/cli.rs                           JsModuleSpecArg::from_str        *)
(*   tests/common/mod.rs                  perform_invoke, drop_resource    *)
(* One generation call is a sequence of steps; pc is the step about to     *)
(* run.  The output directory is the pair (dirs, files) plus the copy of   *)
(* the WIT tree, outWit.                                                   *)
(***************************************************************************)
EXTENDS Integers, Sequences, FiniteSets, TLC

VARIABLES
    op,             \* "wrapper" (generate_wrapper_crate) or "dts" (generate_dts)
    wit,            \* the caller's WIT tree (the `wit` argument, as it is on disk)
    worldArg,       \* the `world` argument: "none" or a world name
    js_modules,     \* the `js_modules` argument: a sequence of JsModuleSpec
    pc,             \* the step of the running call
    run,            \* number of the call on this output directory (1, 2, ...)
    dirs,           \* directories that exist under the output path
    files,          \* files under the output path: path -> content
    files0,         \* files as they were when the running call started
    outWit,         \* the copy of the WIT tree at <output>/wit
    outWit0,        \* outWit as it was when the running call started
    world_name,     \* GeneratorContext.world_name ("none" before resolution)
    visited_types,  \* GeneratorContext.visited_types (a BTreeSet: sorted, no duplicates)
    stack,          \* type identifiers the classifier still has to look at
    work,           \* number of classifier visits made by the running call
    conversions,    \* type identifiers generate_conversions emitted an impl for
    copied,         \* the std::fs::copy calls copy_js_modules made, in order
    dts,            \* the declaration files generate_dts returns
    history,        \* the steps the running call has completed, in order
    result,         \* "running", "ok" or "err"
    err,            \* the error returned: failing step, context chain, cause
    include_cargo_config,   \* the --include-cargo-config flag of the command line
    probe,          \* the function applied last, with its arguments
    answer,         \* what that function returned
    handles,        \* the resource table of a running component: handle -> entry
    given,          \* the value each handle's constructor was called with
    disposed,       \* the handles the host has dropped
    reply           \* the result of the last host call on the component

vars == << op, wit, worldArg, js_modules, pc, run, dirs, files, files0, outWit,
           outWit0, world_name, visited_types, stack, work, conversions, copied,
           dts, history, result, err, include_cargo_config, probe, answer,
           handles, given, disposed, reply >>

----------------------------------------------------------------------------
(* Bounds of the model *)

MaxModules == 2
MaxDeps == 2
NumTypes == 3
MaxRoots == 2
MaxImports == 2
MaxRuns == 2
WorkSlack == 2

TypeIds == 1..NumTypes

\* The cap on classifier visits: above every number of visits a terminating
\* classification can make (roots plus edges of the type graph).
MaxWork == NumTypes * NumTypes + 2 * MaxRoots + WorkSlack

----------------------------------------------------------------------------
(* Small helpers on sequences *)

Range(s) == { s[i] : i \in 1..Len(s) }

SeqsUpTo(S, n) == UNION { [1..k -> S] : k \in 0..n }

IsPrefix(p, s) == Len(p) <= Len(s) /\ SubSeq(s, 1, Len(p)) = p

----------------------------------------------------------------------------
(* The inputs: JavaScript module specs *)

\* A module name is a sequence of characters; '/' separates its segments.
ModuleNames == { << "a", "/", "b", "/", "c" >>, << "a", "_", "b", "/", "c" >> }

JsSources == { << "js_in", "one.js" >>, << "js_in", "two.js" >> }

NoSource == << >>

\* EmbeddingMode::EmbedFile(path) and EmbeddingMode::Composition
EmbeddingMode ==
    { [kind |-> "EmbedFile", source |-> s] : s \in JsSources }
        \cup { [kind |-> "Composition", source |-> NoSource] }

JsModuleSpec == [name : ModuleNames, mode : EmbeddingMode]

ModuleLists == UNION { [1..k -> JsModuleSpec] : k \in 1..MaxModules }

EmbedOne ==
    [name |-> << "a", "/", "b", "/", "c" >>,
     mode |-> [kind |-> "EmbedFile", source |-> << "js_in", "one.js" >>]]

ComposedOne ==
    [name |-> << "a", "_", "b", "/", "c" >>,
     mode |-> [kind |-> "Composition", source |-> NoSource]]

ReferenceModuleLists == { << EmbedOne >>, << ComposedOne, EmbedOne >> }

----------------------------------------------------------------------------
(* The inputs: WIT trees *)

\* The WIT root the caller passes; every source file of the tree lies under it.
WitRoot == << "wit_in" >>

RootFile == WitRoot \o << "world.wit" >>
F1a == WitRoot \o << "deps", "d1", "a.wit" >>
F1b == WitRoot \o << "deps", "d1", "b.wit" >>
F2a == WitRoot \o << "deps", "d2", "a.wit" >>

\* PackageSourceMap::package_paths: None (known = FALSE) or the source files
\* of the package, of which there is at least one.
SourceOptions ==
    { [known |-> TRUE, paths |-> { F1a }],
      [known |-> TRUE, paths |-> { F1a, F1b }],
      [known |-> TRUE, paths |-> { F2a }],
      [known |-> TRUE, paths |-> { F1a, F2a }],
      [known |-> FALSE, paths |-> { }] }

\* PackageName: namespace:name with an optional version.
DepNames ==
    { [name |-> "a:foo", version |-> "1.0.0"],
      [name |-> "a:foo", version |-> "2.0.0"],
      [name |-> "a:bar", version |-> "none"] }

RootPackageName == [name |-> "r:root", version |-> "none"]

RootPackage == [name |-> RootPackageName, sources |-> [known |-> TRUE, paths |-> { RootFile }]]

\* The dependency packages of a tree, in the order the Resolve holds them;
\* package names (with version) are unique in a Resolve.
DepLists ==
    { d \in SeqsUpTo([name : DepNames, sources : SourceOptions], MaxDeps) :
        \A i, j \in 1..Len(d) : i # j => d[i].name # d[j].name }

\* Type graphs over TypeIds: the structural children of each type.
Shapes == { "leaves", "chain", "ring", "self", "complete" }

Children(shape, t) ==
    CASE shape = "leaves"   -> { }
      [] shape = "chain"    -> IF t < NumTypes THEN { t + 1 } ELSE { }
      [] shape = "ring"     -> { (t % NumTypes) + 1 }
      [] shape = "self"     -> { t }
      [] shape = "complete" -> TypeIds

\* An interface a world imports: its name and owning package, either absent.
ImportedInterfaces == [name : { "none", "api", "log" }, package : { "none", "r:root" }]

WorldNames == { "w1", "w2" }

\* TypeOwner and WorldItem of wit-parser, as far as is_exported_type looks.
InterfaceIds == { "i1", "i2" }

OwnerWorld(w) == [kind |-> "world", world |-> w, interface |-> "none"]
OwnerInterface(i) == [kind |-> "interface", world |-> "none", interface |-> i]
OwnerNone == [kind |-> "none", world |-> "none", interface |-> "none"]

TypeOwners ==
    { OwnerWorld(w) : w \in WorldNames } \cup { OwnerInterface(i) : i \in InterfaceIds }
        \cup { OwnerNone }

ItemType(t) == [kind |-> "type", type |-> t, interface |-> "none"]
ItemInterface(i) == [kind |-> "interface", type |-> 0, interface |-> i]

BaseTree ==
    [valid       |-> TRUE,
     worlds      |-> { "w1" },
     owners      |-> [t \in TypeIds |-> OwnerInterface("i1")],
     exports     |-> [w \in WorldNames |->
                        IF w = "w1" THEN { ItemInterface("i1") } ELSE { }],
     deps        |-> << >>,
     shape       |-> "chain",
     exportRoots |-> << 1 >>,
     importRoots |-> << >>,
     imports     |-> << >>]

ResolutionTrees ==
    { [BaseTree EXCEPT !.valid = v, !.worlds = w] :
        v \in BOOLEAN, w \in { { }, { "w1" }, { "w1", "w2" } } }

PackageTrees == { [BaseTree EXCEPT !.deps = d] : d \in DepLists }

TypeTrees ==
    { [BaseTree EXCEPT !.shape = s, !.exportRoots = e, !.importRoots = i] :
        s \in Shapes, e \in SeqsUpTo(TypeIds, MaxRoots),
        i \in SeqsUpTo({ 1, NumTypes }, 1) }

InterfaceTrees ==
    { [BaseTree EXCEPT !.imports = i] :
        i \in { s \in SeqsUpTo(ImportedInterfaces, MaxImports) :
                  \A j, k \in 1..Len(s) : (j # k /\ s[j] = s[k]) => s[j].name = "none" } }

\* Trees that differ in the owner of type 1 and in what the world exports.
OwnerTrees ==
    { [BaseTree EXCEPT !.owners = [@ EXCEPT ![1] = o],
                       !.exports = [@ EXCEPT !["w1"] = e]] :
        o \in TypeOwners,
        e \in SUBSET { ItemType(1), ItemType(NumTypes), ItemInterface("i1"),
                       ItemInterface("i2") } }

\* The calls the model makes: each family of trees with the reference module
\* lists, the base tree with every module list, generate_dts on the trees
\* that decide its outcome, and the base tree with the cargo-config flag set.
\* The flag is false wherever the command line leaves it at its default.
Inputs ==
    { [op |-> "wrapper", wit |-> t, worldArg |-> "none", js_modules |-> m,
       include_cargo_config |-> FALSE] :
        t \in PackageTrees \cup TypeTrees \cup InterfaceTrees, m \in ReferenceModuleLists }
    \cup
    { [op |-> "wrapper", wit |-> t, worldArg |-> w, js_modules |-> m,
       include_cargo_config |-> FALSE] :
        t \in ResolutionTrees, w \in { "none", "w1", "w2" }, m \in ReferenceModuleLists }
    \cup
    { [op |-> "wrapper", wit |-> BaseTree, worldArg |-> "none", js_modules |-> m,
       include_cargo_config |-> FALSE] :
        m \in ModuleLists }
    \cup
    { [op |-> "dts", wit |-> t, worldArg |-> w, js_modules |-> << >>,
       include_cargo_config |-> FALSE] :
        t \in ResolutionTrees \cup InterfaceTrees, w \in { "none", "w1" } }
    \cup
    { [op |-> "wrapper", wit |-> BaseTree, worldArg |-> "none", js_modules |-> m,
       include_cargo_config |-> TRUE] :
        m \in ReferenceModuleLists }
    \cup
    { [op |-> o, wit |-> t, worldArg |-> "none", js_modules |-> << >>,
       include_cargo_config |-> FALSE] :
        o \in { "wrapper", "dts" }, t \in OwnerTrees }

----------------------------------------------------------------------------
(* lib.rs: JsModuleSpec::file_name, uses_composition *)

\* str::replacen('/', "_", 1): only the first '/' of the name becomes '_'.
ReplaceFirstSlash(name) ==
    [i \in 1..Len(name) |->
        IF name[i] = "/" /\ \A j \in 1..(i - 1) : name[j] # "/" THEN "_" ELSE name[i]]

\* str::replace('/', "_"): every '/' of the name becomes '_'.
ReplaceSlashes(name) == [i \in 1..Len(name) |-> IF name[i] = "/" THEN "_" ELSE name[i]]

\* self.name.replace('/', "_") + ".js"
file_name(spec) == ReplaceSlashes(spec.name) \o << ".js" >>

\* Only the first spec, the implementation of the exports, is looked at.
primary_uses_composition(specs) == Len(specs) > 0 /\ specs[1].mode.kind = "Composition"

\* js_module_spec.iter().any(|m| matches!(m.mode, EmbeddingMode::Composition))
uses_composition(specs) == \E i \in 1..Len(specs) : specs[i].mode.kind = "Composition"

----------------------------------------------------------------------------
(* lib.rs: GeneratorContext::record_visited_type on a BTreeSet<TypeId> *)

\* A BTreeSet is kept as the sequence of its elements in increasing order.
IsBTreeSet(s) == \A i, j \in 1..Len(s) : i < j => s[i] < s[j]

\* BTreeSet::insert: nothing changes when the element is there already,
\* otherwise it is placed at its position in the order.
BTreeInsert(s, x) ==
    IF x \in Range(s) THEN s
    ELSE LET below == SelectSeq(s, LAMBDA y : y < x)
             above == SelectSeq(s, LAMBDA y : y > x)
         IN  below \o << x >> \o above

\* A record kept in a Vec: the identifier is pushed whether or not it is there.
record_in_vec(visited, type_id) == Append(visited, type_id)

\* A record that is lost: the set stays as it was.
record_nothing(visited, type_id) == visited

\* self.visited_types.borrow_mut().insert(type_id)
record_visited_type(visited, type_id) == BTreeInsert(visited, type_id)

----------------------------------------------------------------------------
(* lib.rs: GeneratorContext::new *)

NoPackage == [name |-> "none", version |-> "none"]

NoError == [step |-> "none", context |-> << >>, cause |-> "none", package |-> NoPackage]

Error(step, context, cause, package) ==
    [step |-> step, context |-> context, cause |-> cause, package |-> package]

\* Resolve::select_world(root_package, world): the named world must exist in
\* the root package; with no name given the package must hold exactly one world.
select_world(tree, name) ==
    IF name # "none"
    THEN IF name \in tree.worlds
         THEN [ok |-> TRUE, world |-> name, cause |-> "none"]
         ELSE [ok |-> FALSE, world |-> "none", cause |-> "no such world"]
    ELSE IF Cardinality(tree.worlds) = 1
         THEN [ok |-> TRUE, world |-> CHOOSE w \in tree.worlds : TRUE, cause |-> "none"]
         ELSE IF tree.worlds = { }
              THEN [ok |-> FALSE, world |-> "none", cause |-> "no world"]
              ELSE [ok |-> FALSE, world |-> "none", cause |-> "ambiguous default world"]

\* GeneratorContext::new: push_path, then select_world, each with its context.
ContextNew(tree, name) ==
    IF ~tree.valid
    THEN [ok |-> FALSE, world |-> "none",
          error |-> Error("resolve", << "Failed to resolve WIT package" >>,
                          "invalid WIT", NoPackage)]
    ELSE LET sel == select_world(tree, name)
         IN  IF sel.ok
             THEN [ok |-> TRUE, world |-> sel.world, error |-> NoError]
             ELSE [ok |-> FALSE, world |-> "none",
                   error |-> Error("resolve", << "Failed to select WIT world" >>,
                                   sel.cause, NoPackage)]

\* resolve.packages in the order add_wit_dependencies walks it: the
\* dependencies, then the root package.
Packages(tree) == tree.deps \o << RootPackage >>

\* self.resolve.packages[self.root_package].name.to_string()
root_package_name == RootPackageName

----------------------------------------------------------------------------
(* skeleton.rs: add_wit_dependencies *)

\* Utf8Path::strip_prefix(base).unwrap_or(path)
StripPrefix(path, base) ==
    IF IsPrefix(base, path) THEN SubSeq(path, Len(base) + 1, Len(path)) ELSE path

\* Utf8Path::parent: Some(path without its last component), None for "".
HasParent(path) == Len(path) > 0

Parent(path) == SubSeq(path, 1, Len(path) - 1)

\* The BTreeSet `parents` built for one package (lines 103-110).
Parents(package) ==
    { Parent(StripPrefix(f, WitRoot)) :
        f \in { g \in package.sources.paths : HasParent(StripPrefix(g, WitRoot)) } }

\* package_name_without_version.to_string(): the key of the table entry.
TableKey(package) == [package.name EXCEPT !.version = "none"]

NoTable == [k \in { } |-> << >>]

\* An entry that is already in the table is kept as it is.
TableInsertKeepingFirst(table, key, path) ==
    [k \in DOMAIN table \cup { key } |-> IF k \in DOMAIN table THEN table[k] ELSE path]

TableInsert(table, key, path) ==
    [k \in DOMAIN table \cup { key } |-> IF k = key THEN path ELSE table[k]]

\* The loop iteration with a package of several directories given the first
\* of them instead of an error.
AddPackagePickingOne(acc, package) ==
    IF ~acc.ok \/ ~package.sources.known \/ Parents(package) = { } THEN acc
    ELSE LET parent == CHOOSE d \in Parents(package) :
                          \A e \in Parents(package) : Len(d) <= Len(e)
         IN  IF parent # << >>
             THEN [acc EXCEPT !.table =
                      TableInsert(acc.table, TableKey(package), << "wit" >> \o parent)]
             ELSE acc

\* One iteration of the loop over resolve.packages (lines 101-138): the
\* table after the package, or the error the package raises.
AddPackage(acc, package) ==
    IF ~acc.ok \/ ~package.sources.known THEN acc
    ELSE LET parents == Parents(package)
         IN  IF Cardinality(parents) > 1
             THEN [ok |-> FALSE, table |-> acc.table,
                   error |-> Error("cargo_toml", << >>,
                                   "multiple source directories", package.name)]
             ELSE IF parents # { }
                  THEN LET parent == CHOOSE d \in parents : TRUE
                       IN  IF parent # << >>
                           THEN [acc EXCEPT !.table =
                                    TableInsert(acc.table, TableKey(package),
                                                << "wit" >> \o parent)]
                           ELSE acc
                  ELSE [ok |-> FALSE, table |-> acc.table,
                        error |-> Error("cargo_toml", << >>,
                                        "no source directories", package.name)]

RECURSIVE AddPackages(_, _, _)
AddPackages(acc, packages, i) ==
    IF i > Len(packages) THEN acc
    ELSE AddPackages(AddPackage(acc, packages[i]), packages, i + 1)

\* add_wit_dependencies(context, doc): the dependency table, or the error.
add_wit_dependencies(tree) ==
    AddPackages([ok |-> TRUE, table |-> NoTable, error |-> NoError], Packages(tree), 1)

----------------------------------------------------------------------------
(* lib.rs: GeneratorContext::is_exported_interface, is_exported_type *)

is_exported_interface(resolve, world, interface_id) ==
    \E item \in resolve.exports[world] :
        item.kind = "interface" /\ item.interface = interface_id

\* A type owned by a world counts as exported when the selected world
\* exports it, whichever world owns it.
is_exported_type_any_world(resolve, world, type_id) ==
    IF type_id \in DOMAIN resolve.owners
    THEN LET owner == resolve.owners[type_id]
         IN  CASE owner.kind = "world" ->
                     \E item \in resolve.exports[world] :
                         item.kind = "type" /\ item.type = type_id
               [] owner.kind = "interface" ->
                     is_exported_interface(resolve, world, owner.interface)
               [] owner.kind = "none" -> FALSE
    ELSE FALSE

is_exported_type(resolve, world, type_id) ==
    IF type_id \in DOMAIN resolve.owners
    THEN LET owner == resolve.owners[type_id]
         IN  CASE owner.kind = "world" ->
                     IF owner.world = world
                     THEN \E item \in resolve.exports[world] :
                              item.kind = "type" /\ item.type = type_id
                     ELSE FALSE
               [] owner.kind = "interface" ->
                     is_exported_interface(resolve, world, owner.interface)
               [] owner.kind = "none" -> FALSE
    ELSE FALSE

----------------------------------------------------------------------------
(* lib.rs: GeneratorContext::get_imported_interface *)

\* An interface without a name is given a view all the same.
get_imported_interface_lenient(interface) ==
    IF interface.package = "none"
    THEN [ok |-> FALSE, cause |-> "Anonymous interface imports are not supported yet"]
    ELSE [ok |-> TRUE, cause |-> "none"]

get_imported_interface(interface) ==
    IF interface.name = "none"
    THEN [ok |-> FALSE, cause |-> "Interface import does not have a name"]
    ELSE IF interface.package = "none"
         THEN [ok |-> FALSE, cause |-> "Anonymous interface imports are not supported yet"]
         ELSE [ok |-> TRUE, cause |-> "none"]

----------------------------------------------------------------------------
(* lib.rs: ImportedInterface::module_name *)

\* Names are sequences of tokens: a word of letters or digits, or one
\* punctuation character.
MaxWords == 2

NameWords == { "x", "y" }

Separators == { ":", "-", "@", ".", "/" }

RECURSIVE JoinWith(_, _)
JoinWith(words, sep) ==
    IF Len(words) = 0 THEN << >>
    ELSE IF Len(words) = 1 THEN << words[1] >>
    ELSE << words[1], sep >> \o JoinWith(Tail(words), sep)

\* WIT identifiers: one or more words joined by '-'.
KebabNames == { JoinWith(w, "-") : w \in SeqsUpTo(NameWords, MaxWords) \ { << >> } }

Versions == { << >>, << "1", ".", "0", ".", "0" >> }

PackageNames == [namespace : { "a" }, name : KebabNames, version : Versions]

\* wit_parser's Display for PackageName: namespace:name, then @version if any.
PackageNameToString(package_name) ==
    << package_name.namespace, ":" >> \o package_name.name
        \o (IF package_name.version = << >> THEN << >>
            ELSE << "@" >> \o package_name.version)

\* heck's to_snake_case: the words of the text (maximal runs of letters and
\* digits; every other character only separates words) joined by '_'.
RECURSIVE SnakeWords(_, _, _)
SnakeWords(text, out, gap) ==
    IF text = << >> THEN out
    ELSE IF Head(text) \in Separators THEN SnakeWords(Tail(text), out, TRUE)
    ELSE SnakeWords(Tail(text),
                    (IF gap /\ out # << >> THEN Append(out, "_") ELSE out)
                        \o << Head(text) >>,
                    FALSE)

to_snake_case(text) == SnakeWords(text, << >>, FALSE)

\* The views get_imported_interface builds: package_name is always Some there.
ImportViews == [package_name : PackageNames, name : KebabNames]

\* format!("{}_{}", package_name.to_string().to_snake_case(),
\*         interface_name.to_snake_case())
module_name(view) ==
    to_snake_case(PackageNameToString(view.package_name))
        \o << "_" >> \o to_snake_case(view.name)

----------------------------------------------------------------------------
(* The output directory *)

NoFiles == [p \in { } |-> << >>]

\* The write empties the output directory first.
WriteFileAlone(fs, path, content) == [p \in { path } |-> content]

\* std::fs::write / std::fs::copy: the file is created or replaced.
WriteFile(fs, path, content) ==
    [p \in DOMAIN fs \cup { path } |-> IF p = path THEN content ELSE fs[p]]

RECURSIVE WriteFiles(_, _, _, _)
WriteFiles(fs, paths, content, k) ==
    IF k = 0 THEN fs
    ELSE WriteFile(WriteFiles(fs, paths, content, k - 1), paths[k], content)

NoWit == [exists |-> FALSE, trees |-> << >>, synthetic |-> 0]

OutputRoot == << >>
SrcDir == << "src" >>
ModulesDir == << "src", "modules" >>
BuiltinDir == << "src", "builtin" >>
CargoDir == << ".cargo" >>

CargoTomlPath == << "Cargo.toml" >>
GolemYamlPath == << "golem.yaml" >>
LibRsPath == << "src", "lib.rs" >>
ConversionsPath == << "src", "conversions.rs" >>
CargoConfigPath == << ".cargo", "config.toml" >>
ExportsDtsPath == << "exports.d.ts" >>

\* The files of the embedded skeleton, in the order they are written.
SkeletonFiles == << << "src", "internal.rs" >>, << "src", "builtin", "mod.rs" >> >>

ModulePath(interface) == << "src", "modules", interface.package, "_", interface.name, ".rs" >>

ImportDtsPath(interface) == << interface.package, "_", interface.name, ".d.ts" >>

\* <output>/src/<file name>
JsDest(spec) == << "src" >> \o file_name(spec)

\* The elements of a set of integers as an increasing sequence.
RECURSIVE SortedSeq(_)
SortedSeq(S) ==
    IF S = { } THEN << >>
    ELSE LET m == CHOOSE x \in S : \A y \in S : x <= y
         IN  << m >> \o SortedSeq(S \ { m })

----------------------------------------------------------------------------
(* lib.rs: the order of the steps of generate_wrapper_crate and generate_dts *)

\* The skeleton copy moved in front of the resolution of the WIT package.
WrapperStepsSkeletonFirst ==
    << "create_dirs", "skeleton", "resolve", "cargo_toml", "app_manifest",
       "cargo_config", "copy_wit", "get_script", "copy_js", "exports", "imports",
       "conversions" >>

\* The conversions generated between the export and the import pass.
WrapperStepsConversionsEarly ==
    << "create_dirs", "resolve", "cargo_toml", "app_manifest", "skeleton",
       "cargo_config", "copy_wit", "get_script", "copy_js", "exports", "conversions",
       "imports" >>

\* The world rewritten before the WIT tree is copied.
WrapperStepsRewriteFirst ==
    << "create_dirs", "resolve", "cargo_toml", "app_manifest", "skeleton",
       "cargo_config", "get_script", "copy_wit", "copy_js", "exports", "imports",
       "conversions" >>

\* The deployment manifest is written before the package manifest.
WrapperStepsManifestsSwapped ==
    << "create_dirs", "resolve", "app_manifest", "cargo_toml", "skeleton",
       "cargo_config", "copy_wit", "get_script", "copy_js", "exports", "imports",
       "conversions" >>

WrapperSteps ==
    << "create_dirs", "resolve", "cargo_toml", "app_manifest", "skeleton",
       "cargo_config", "copy_wit", "get_script", "copy_js", "exports", "imports",
       "conversions" >>

\* generate_dts copies the skeleton sources as well.
DtsStepsWithSkeleton ==
    << "create_dirs", "resolve", "skeleton", "ts_exports", "ts_imports" >>

DtsSteps == << "create_dirs", "resolve", "ts_exports", "ts_imports" >>

StepsOf(o) == IF o = "wrapper" THEN WrapperSteps ELSE DtsSteps

\* The step that follows `step` in the call, "done" after the last one.
NextStep(o, step) ==
    LET steps == StepsOf(o)
        i == CHOOSE k \in 1..Len(steps) : steps[k] = step
    IN  IF i = Len(steps) THEN "done" ELSE steps[i + 1]

----------------------------------------------------------------------------
(* The state machine *)

\* No host call has been made yet.
NoReply == [call |-> "none", handle |-> 0, ok |-> TRUE, value |-> "none"]

\* No function has been applied yet.
NoProbe == [fn |-> "none", args |-> << >>]
NoAnswer == << >>

Init ==
    /\ \E in \in Inputs :
          /\ op = in.op
          /\ wit = in.wit
          /\ worldArg = in.worldArg
          /\ js_modules = in.js_modules
          /\ include_cargo_config = in.include_cargo_config
    /\ probe = NoProbe
    /\ answer = NoAnswer
    /\ handles = << >>
    /\ given = << >>
    /\ disposed = { }
    /\ reply = NoReply
    /\ pc = "create_dirs"
    /\ run = 1
    /\ dirs = { }
    /\ files = NoFiles
    /\ files0 = NoFiles
    /\ outWit = NoWit
    /\ outWit0 = NoWit
    /\ world_name = "none"
    /\ visited_types = << >>
    /\ stack = << >>
    /\ work = 0
    /\ conversions = << >>
    /\ copied = << >>
    /\ dts = << >>
    /\ history = << >>
    /\ result = "running"
    /\ err = NoError

inputs == << op, wit, worldArg, js_modules, include_cargo_config >>
component == << handles, given, disposed, reply >>
aside == << probe, answer, component >>
context == << world_name, visited_types, stack, work, conversions >>
snapshot == << run, files0, outWit0 >>

\* A step returns Err: the call ends with that error.
Fail(e) ==
    /\ pc' = "failed"
    /\ result' = "err"
    /\ err' = e

\* A step returns Ok: the call goes on with the next step, or returns Ok(..).
Advance(step) ==
    /\ pc' = NextStep(op, step)
    /\ history' = Append(history, step)
    /\ result' = IF NextStep(op, step) = "done" THEN "ok" ELSE "running"
    /\ err' = err

IoError(step, context_) == Error(step, context_, "io", NoPackage)

\* lib.rs 71-75 and 128-129: std::fs::create_dir_all for each target directory.
CreateDirsTargets ==
    IF op = "wrapper" THEN << OutputRoot, SrcDir, ModulesDir >> ELSE << OutputRoot >>

CreateDirsContexts ==
    << "Failed to create output directory",
       "Failed to create output/src directory",
       "Failed to create output/src/modules directory" >>

CreateDirs ==
    /\ pc = "create_dirs"
    /\ \E k \in 0..Len(CreateDirsTargets) :
          /\ dirs' = dirs \cup { CreateDirsTargets[i] : i \in 1..k }
          /\ IF k = Len(CreateDirsTargets)
             THEN Advance("create_dirs")
             ELSE /\ Fail(IoError("create_dirs", << CreateDirsContexts[k + 1] >>))
                  /\ UNCHANGED history
    /\ UNCHANGED << inputs, aside, context, snapshot, files, outWit, copied, dts >>

\* lib.rs 78 and 132: GeneratorContext::new(output, wit, world)?
Resolve ==
    /\ pc = "resolve"
    /\ LET made == ContextNew(wit, worldArg)
       IN  IF made.ok
           THEN /\ world_name' = made.world
                /\ Advance("resolve")
           ELSE /\ Fail(made.error)
                /\ UNCHANGED << world_name, history >>
    /\ visited_types' = << >>
    /\ UNCHANGED << inputs, aside, snapshot, dirs, files, outWit, stack, work, conversions,
                    copied, dts >>

\* skeleton.rs 19-39: generate_cargo_toml; lib.rs 81 adds no context.
GenerateCargoToml ==
    /\ pc = "cargo_toml"
    /\ LET deps == add_wit_dependencies(wit)
       IN  IF ~deps.ok
           THEN /\ Fail(deps.error)
                /\ UNCHANGED << files, history >>
           ELSE \E written \in BOOLEAN :
                   IF written
                   THEN /\ files' = WriteFile(files, CargoTomlPath,
                                       [kind |-> "manifest", name |-> world_name,
                                        dependencies |-> deps.table])
                        /\ Advance("cargo_toml")
                   ELSE /\ Fail(IoError("cargo_toml", << >>))
                        /\ UNCHANGED << files, history >>
    /\ UNCHANGED << inputs, aside, context, snapshot, dirs, outWit, copied, dts >>

\* skeleton.rs 41-58: generate_app_manifest; lib.rs 84 adds no context.
GenerateAppManifest ==
    /\ pc = "app_manifest"
    /\ \E written \in BOOLEAN :
          IF written
          THEN /\ files' = WriteFile(files, GolemYamlPath,
                              [kind |-> "app", component |-> world_name,
                               root |-> root_package_name])
               /\ Advance("app_manifest")
          ELSE /\ Fail(IoError("app_manifest", << >>))
               /\ UNCHANGED << files, history >>
    /\ UNCHANGED << inputs, aside, context, snapshot, dirs, outWit, copied, dts >>

\* skeleton.rs 145-162: copy_skeleton_sources writes the skeleton's files one
\* by one; lib.rs 87 adds the context.
CopySkeletonSources ==
    /\ pc = "skeleton"
    /\ \E k \in 0..Len(SkeletonFiles) :
          /\ files' = WriteFiles(files, SkeletonFiles, [kind |-> "skeleton"], k)
          /\ dirs' = IF k >= 1 THEN dirs \cup { BuiltinDir } ELSE dirs
          /\ IF k = Len(SkeletonFiles)
             THEN Advance("skeleton")
             ELSE /\ Fail(IoError("skeleton", << "Failed to copy skeleton sources" >>))
                  /\ UNCHANGED history
    /\ UNCHANGED << inputs, aside, context, snapshot, outWit, copied, dts >>

\* skeleton.rs 164-171: copy_cargo_config; lib.rs 90 calls it in every run.
CopyCargoConfig ==
    /\ pc = "cargo_config"
    /\ \E written \in BOOLEAN :
          IF written
          THEN /\ dirs' = dirs \cup { CargoDir }
               /\ files' = WriteFile(files, CargoConfigPath, [kind |-> "skeleton"])
               /\ Advance("cargo_config")
          ELSE /\ Fail(IoError("cargo_config", << "Failed to copy cargo config" >>))
               /\ UNCHANGED << dirs, files, history >>
    /\ UNCHANGED << inputs, aside, context, snapshot, outWit, copied, dts >>

\* lib.rs 320-327: copy_wit_directory erases <output>/wit and copies the
\* caller's tree into it; either call may fail.
CopyWitContext == "Failed to copy WIT package to output directory"

\* The copy skips what <output>/wit already holds instead of erasing it.
CopyWitDirectoryKeeping ==
    /\ pc = "copy_wit"
    /\ \E outcome \in { "copied", "create failed", "copy failed" } :
          CASE outcome = "copied" ->
                  /\ outWit' = [outWit EXCEPT !.exists = TRUE, !.trees = << wit >>]
                  /\ Advance("copy_wit")
            [] outcome = "create failed" ->
                  /\ Fail(IoError("copy_wit",
                          << CopyWitContext, "Failed to create and erase output WIT directory" >>))
                  /\ UNCHANGED << outWit, history >>
            [] outcome = "copy failed" ->
                  /\ outWit' = [outWit EXCEPT !.exists = TRUE]
                  /\ Fail(IoError("copy_wit", << CopyWitContext, "Failed to copy WIT directory" >>))
                  /\ UNCHANGED history
    /\ UNCHANGED << inputs, aside, context, snapshot, dirs, files, copied, dts >>

CopyWitDirectory ==
    /\ pc = "copy_wit"
    /\ \E outcome \in { "copied", "create failed", "copy failed" } :
          CASE outcome = "copied" ->
                  /\ outWit' = [exists |-> TRUE, trees |-> << wit >>, synthetic |-> 0]
                  /\ Advance("copy_wit")
            [] outcome = "create failed" ->
                  /\ Fail(IoError("copy_wit",
                          << CopyWitContext, "Failed to create and erase output WIT directory" >>))
                  /\ UNCHANGED << outWit, history >>
            [] outcome = "copy failed" ->
                  /\ outWit' = [exists |-> TRUE, trees |-> << >>, synthetic |-> 0]
                  /\ Fail(IoError("copy_wit", << CopyWitContext, "Failed to copy WIT directory" >>))
                  /\ UNCHANGED history
    /\ UNCHANGED << inputs, aside, context, snapshot, dirs, files, copied, dts >>

\* wit.rs: add_get_script_import(dir, world) adds the script-fetching import
\* to the world of the WIT tree found in dir; it fails when dir holds no tree.
add_get_script_import(tree_copy) ==
    IF tree_copy.trees = << >>
    THEN [ok |-> FALSE, wit |-> tree_copy]
    ELSE [ok |-> TRUE, wit |-> [tree_copy EXCEPT !.synthetic = @ + 1]]

\* lib.rs 96-99: the import is added to <output>/wit when a spec asks for it.
AddGetScriptImport ==
    /\ pc = "get_script"
    /\ IF uses_composition(js_modules)
       THEN LET added == add_get_script_import(outWit)
            IN  \E written \in BOOLEAN :
                   IF written /\ added.ok
                   THEN /\ outWit' = added.wit
                        /\ Advance("get_script")
                   ELSE /\ Fail(IoError("get_script",
                                << "Failed to add get-script import to the WIT world" >>))
                        /\ UNCHANGED << outWit, history >>
       ELSE /\ Advance("get_script")
            /\ UNCHANGED outWit
    /\ UNCHANGED << inputs, aside, context, snapshot, dirs, files, copied, dts >>

\* lib.rs 330-340: the loop of copy_js_modules over the first n specs.
RECURSIVE CopiedFiles(_, _, _)
CopiedFiles(fs, specs, n) ==
    IF n = 0 THEN fs
    ELSE LET before == CopiedFiles(fs, specs, n - 1)
         IN  IF specs[n].mode.kind = "EmbedFile"
             THEN WriteFile(before, JsDest(specs[n]),
                            [kind |-> "js", source |-> specs[n].mode.source])
             ELSE before

RECURSIVE CopyLog(_, _)
CopyLog(specs, n) ==
    IF n = 0 THEN << >>
    ELSE IF specs[n].mode.kind = "EmbedFile"
         THEN Append(CopyLog(specs, n - 1),
                     [spec |-> n, from |-> specs[n].mode.source, to |-> JsDest(specs[n])])
         ELSE CopyLog(specs, n - 1)

\* copy_js_modules; std::fs::copy may fail at any EmbedFile spec (failing = 0:
\* at none), and the copies made before it stay.
CopyJsModules ==
    /\ pc = "copy_js"
    /\ \E failing \in { 0 } \cup { i \in 1..Len(js_modules) : js_modules[i].mode.kind = "EmbedFile" } :
          LET n == IF failing = 0 THEN Len(js_modules) ELSE failing - 1
          IN  /\ files' = CopiedFiles(files, js_modules, n)
              /\ copied' = CopyLog(js_modules, n)
              /\ IF failing = 0
                 THEN Advance("copy_js")
                 ELSE /\ Fail(IoError("copy_js",
                              << "Failed to copy JavaScript module to output directory",
                                 "Failed to copy JavaScript module" >>))
                      /\ UNCHANGED history
    /\ UNCHANGED << inputs, aside, context, snapshot, dirs, outWit, dts >>

\* exports.rs: generate_export_impls starts by looking at the types of the
\* exported signatures, in order.
GenerateExportImpls ==
    /\ pc = "exports"
    /\ stack' = wit.exportRoots
    /\ pc' = "exports_classify"
    /\ UNCHANGED << inputs, aside, snapshot, dirs, files, outWit, world_name, visited_types,
                    work, conversions, copied, dts, history, result, err >>

\* One visit of the classifier: the type is recorded as visited, and its
\* structural children are looked at only if it was not a member before.
Classify ==
    /\ pc \in { "exports_classify", "imports_classify" }
    /\ stack # << >>
    /\ work < MaxWork
    /\ LET type_id == Head(stack)
           member == type_id \in Range(visited_types)
       IN  /\ visited_types' = record_visited_type(visited_types, type_id)
           /\ stack' = IF member THEN Tail(stack)
                       ELSE SortedSeq(Children(wit.shape, type_id)) \o Tail(stack)
    /\ work' = work + 1
    /\ UNCHANGED << inputs, aside, snapshot, pc, dirs, files, outWit, world_name, conversions,
                    copied, dts, history, result, err >>

\* generate_export_impls ends by writing src/lib.rs; lib.rs 106-107.
FinishExportImpls ==
    /\ pc = "exports_classify"
    /\ stack = << >>
    /\ \E written \in BOOLEAN :
          IF written
          THEN /\ files' = WriteFile(files, LibRsPath,
                              [kind |-> "exports", world |-> world_name])
               /\ Advance("exports")
          ELSE /\ Fail(IoError("exports",
                       << "Failed to generate the component export implementations" >>))
               /\ UNCHANGED << files, history >>
    /\ UNCHANGED << inputs, aside, context, snapshot, dirs, outWit, copied, dts >>

\* The first imported interface get_imported_interface refuses, 0 if none.
FirstRefused(interfaces) ==
    IF \A i \in 1..Len(interfaces) : get_imported_interface(interfaces[i]).ok
    THEN 0
    ELSE CHOOSE i \in 1..Len(interfaces) :
            /\ ~get_imported_interface(interfaces[i]).ok
            /\ \A j \in 1..(i - 1) : get_imported_interface(interfaces[j]).ok

\* imports.rs: generate_import_modules builds the view of every imported
\* interface, then looks at the types of the imported signatures.
GenerateImportModules ==
    /\ pc = "imports"
    /\ LET refused == FirstRefused(wit.imports)
       IN  IF refused # 0
           THEN /\ Fail(Error("imports",
                        << "Failed to generate the component import modules" >>,
                        get_imported_interface(wit.imports[refused]).cause, NoPackage))
                /\ UNCHANGED stack
           ELSE /\ stack' = wit.importRoots
                /\ pc' = "imports_classify"
                /\ UNCHANGED << result, err >>
    /\ UNCHANGED << inputs, aside, snapshot, dirs, files, outWit, world_name, visited_types,
                    work, conversions, copied, dts, history >>

\* generate_import_modules ends by writing one module per imported interface;
\* a write may fail after k modules have been written.
ModulePaths(interfaces) == [i \in 1..Len(interfaces) |-> ModulePath(interfaces[i])]

FinishImportModules ==
    /\ pc = "imports_classify"
    /\ stack = << >>
    /\ \E k \in 0..Len(wit.imports), written \in BOOLEAN :
          /\ written => k = Len(wit.imports)
          /\ files' = WriteFiles(files, ModulePaths(wit.imports), [kind |-> "import module"], k)
          /\ IF written
             THEN Advance("imports")
             ELSE /\ Fail(IoError("imports",
                          << "Failed to generate the component import modules" >>))
                  /\ UNCHANGED history
    /\ UNCHANGED << inputs, aside, context, snapshot, dirs, outWit, copied, dts >>

\* conversions.rs: generate_conversions emits one implementation for each
\* element of visited_types and writes src/conversions.rs; lib.rs 114-115.
GenerateConversions ==
    /\ pc = "conversions"
    /\ \E written \in BOOLEAN :
          IF written
          THEN /\ conversions' = visited_types
               /\ files' = WriteFile(files, ConversionsPath,
                              [kind |-> "conversions", types |-> visited_types])
               /\ Advance("conversions")
          ELSE /\ Fail(IoError("conversions",
                       << "Failed to generate the IntoJs and FromJs typeclass instances" >>))
               /\ UNCHANGED << conversions, files, history >>
    /\ UNCHANGED << inputs, aside, snapshot, dirs, outWit, world_name, visited_types, stack, work,
                    copied, dts >>

\* lib.rs 135-138: typescript::generate_export_module
GenerateTsExports ==
    /\ pc = "ts_exports"
    /\ \E written \in BOOLEAN :
          IF written
          THEN /\ files' = WriteFile(files, ExportsDtsPath, [kind |-> "declarations"])
               /\ dts' = Append(dts, ExportsDtsPath)
               /\ Advance("ts_exports")
          ELSE /\ Fail(IoError("ts_exports",
                       << "Failed to generate the TypeScript module definition for the exports" >>))
               /\ UNCHANGED << files, dts, history >>
    /\ UNCHANGED << inputs, aside, context, snapshot, dirs, outWit, copied >>

TsImportsContext ==
    "Failed to generate the TypeScript module definitions for the imported modules"

\* lib.rs 141-143: typescript::generate_import_modules, one declaration file
\* per imported interface.
GenerateTsImports ==
    /\ pc = "ts_imports"
    /\ LET refused == FirstRefused(wit.imports)
           paths == [i \in 1..Len(wit.imports) |-> ImportDtsPath(wit.imports[i])]
       IN  IF refused # 0
           THEN /\ Fail(Error("ts_imports", << TsImportsContext >>,
                        get_imported_interface(wit.imports[refused]).cause, NoPackage))
                /\ UNCHANGED << files, dts, history >>
           ELSE \E written \in BOOLEAN :
                   IF written
                   THEN /\ files' = WriteFiles(files, paths, [kind |-> "declarations"], Len(paths))
                        /\ dts' = dts \o paths
                        /\ Advance("ts_imports")
                   ELSE /\ Fail(IoError("ts_imports", << TsImportsContext >>))
                        /\ UNCHANGED << files, dts, history >>
    /\ UNCHANGED << inputs, aside, context, snapshot, dirs, outWit, copied >>

\* The caller runs the same call again on the output of a successful one.
Rerun ==
    /\ pc = "done"
    /\ run < MaxRuns
    /\ run' = run + 1
    /\ files0' = files
    /\ outWit0' = outWit
    /\ pc' = "create_dirs"
    /\ world_name' = "none"
    /\ visited_types' = << >>
    /\ stack' = << >>
    /\ work' = 0
    /\ conversions' = << >>
    /\ copied' = << >>
    /\ dts' = << >>
    /\ history' = << >>
    /\ result' = "running"
    /\ err' = NoError
    /\ UNCHANGED << inputs, aside, dirs, files, outWit >>

Next ==
    \/ CreateDirs
    \/ Resolve
    \/ GenerateCargoToml
    \/ GenerateAppManifest
    \/ CopySkeletonSources
    \/ CopyCargoConfig
    \/ CopyWitDirectory
    \/ AddGetScriptImport
    \/ CopyJsModules
    \/ GenerateExportImpls
    \/ Classify
    \/ FinishExportImpls
    \/ GenerateImportModules
    \/ FinishImportModules
    \/ GenerateConversions
    \/ GenerateTsExports
    \/ GenerateTsImports
    \/ Rerun

Spec == Init /\ [][Next]_vars

\* A call that can take a step takes it.
FairSpec == Init /\ [][Next]_vars /\ WF_vars(Next)

----------------------------------------------------------------------------
(* cli.rs: JsModuleSpecArg::from_str *)

\* Command-line text is a sequence of tokens: '=', '@', the word
\* "composition", and a letter standing for any other text.
MaxArgLen == 4

ArgTokens == { "n", "=", "@", "composition" }

ArgTexts == SeqsUpTo(ArgTokens, MaxArgLen)

\* The literal "@composition".
CompositionLiteral == << "@", "composition" >>

\* The positions of '=' in the text.
Equals(text) == { i \in 1..Len(text) : text[i] = "=" }

\* The text cut at the '=' at position k.
CutAt(text, k) == << SubSeq(text, 1, k - 1), SubSeq(text, k + 1, Len(text)) >>

\* str::rsplitn(2, '=') put back in order: cut at the last '='.
rsplitn2(text) ==
    IF Equals(text) = { } THEN << text >>
    ELSE CutAt(text, CHOOSE k \in Equals(text) : \A j \in Equals(text) : j <= k)

\* str::splitn(2, '='): cut at the first '=', or the whole text if it has none.
splitn2(text) ==
    IF Equals(text) = { } THEN << text >>
    ELSE CutAt(text, CHOOSE k \in Equals(text) : \A j \in Equals(text) : k <= j)

from_str(text) ==
    LET parts == splitn2(text)
    IN  IF Len(parts) # 2
        THEN [ok |-> FALSE, error |-> << "Invalid JS module spec: " >> \o text]
        ELSE [ok |-> TRUE,
              name |-> parts[1],
              mode |-> IF parts[2] = CompositionLiteral
                       THEN [kind |-> "Composition", source |-> NoSource]
                       ELSE [kind |-> "EmbedFile", source |-> parts[2]]]

----------------------------------------------------------------------------
(* The pure functions, applied to arguments drawn from bounded sets *)

\* Before any function is applied; the generator itself is not running.
FunctionsInit ==
    /\ Init
    /\ op = "wrapper"
    /\ wit = BaseTree
    /\ worldArg = "none"
    /\ js_modules = << EmbedOne >>
    /\ ~include_cargo_config

generator == << inputs, context, snapshot, pc, dirs, files, outWit, copied, dts,
                history, result, err >>

\* module_name of two imported interfaces of one world.
ComputeModuleNames ==
    /\ probe = NoProbe
    /\ \E a, b \in ImportViews :
          /\ probe' = [fn |-> "module_name", args |-> << a, b >>]
          /\ answer' = << module_name(a), module_name(b) >>
    /\ UNCHANGED << generator, component >>

\* clap parses one --js-modules value.
ParseJsModuleSpec ==
    /\ probe = NoProbe
    /\ \E text \in ArgTexts :
          /\ probe' = [fn |-> "from_str", args |-> << text >>]
          /\ answer' = from_str(text)
    /\ UNCHANGED << generator, component >>

FunctionsNext ==
    \/ ComputeModuleNames
    \/ ParseJsModuleSpec

FunctionsSpec == FunctionsInit /\ [][FunctionsNext]_vars

----------------------------------------------------------------------------
(* A generated component with one exported resource, driven by a host *)

MaxHandles == 3

ResourceValues == { "u", "v" }

\* The resource table of the skeleton: an entry per handle ever created.
resource_new(entries, value) == Append(entries, [live |-> TRUE, value |-> value])

resource_get(entries, handle) ==
    IF handle \in DOMAIN entries /\ entries[handle].live
    THEN [ok |-> TRUE, value |-> entries[handle].value]
    ELSE [ok |-> FALSE, value |-> "none"]

\* The destructor trampoline runs but the table keeps the entry.
resource_drop_keeping(entries, handle) ==
    IF handle \in DOMAIN entries /\ entries[handle].live
    THEN [ok |-> TRUE, entries |-> entries]
    ELSE [ok |-> FALSE, entries |-> entries]

\* The destructor trampoline notifies the table: the entry is invalidated.
resource_drop(entries, handle) ==
    IF handle \in DOMAIN entries /\ entries[handle].live
    THEN [ok |-> TRUE,
          entries |-> [entries EXCEPT ![handle] = [live |-> FALSE, value |-> "none"]]]
    ELSE [ok |-> FALSE, entries |-> entries]

\* A component has been instantiated; the generator is not running.
ComponentInit == FunctionsInit

\* tests/common/mod.rs 214-221: perform_invoke on the constructor.
InvokeConstructor ==
    /\ Len(handles) < MaxHandles
    /\ \E value \in ResourceValues :
          /\ handles' = resource_new(handles, value)
          /\ given' = Append(given, value)
          /\ reply' = [call |-> "constructor", handle |-> Len(handles) + 1, ok |-> TRUE,
                       value |-> "none"]
    /\ UNCHANGED << generator, probe, answer, disposed >>

\* tests/common/mod.rs 214-221: perform_invoke on get-value with a handle the
\* host holds; an error of call_async is returned to the caller.
InvokeGetValue ==
    /\ \E handle \in DOMAIN given :
          LET got == resource_get(handles, handle)
          IN  reply' = [call |-> "get-value", handle |-> handle, ok |-> got.ok,
                        value |-> got.value]
    /\ UNCHANGED << generator, probe, answer, handles, given, disposed >>

\* tests/common/mod.rs 223-225: drop_resource.
DropResource ==
    /\ \E handle \in DOMAIN given :
          LET dropped == resource_drop(handles, handle)
          IN  /\ handles' = dropped.entries
              /\ disposed' = IF dropped.ok THEN disposed \cup { handle } ELSE disposed
              /\ reply' = [call |-> "drop", handle |-> handle, ok |-> dropped.ok,
                           value |-> "none"]
    /\ UNCHANGED << generator, probe, answer, given >>

ComponentNext ==
    \/ InvokeConstructor
    \/ InvokeGetValue
    \/ DropResource

ComponentSpec == ComponentInit /\ [][ComponentNext]_vars

TypeOK ==
    /\ pc \in Range(WrapperSteps) \cup Range(DtsSteps)
              \cup { "exports_classify", "imports_classify", "done", "failed" }
    /\ result \in { "running", "ok", "err" }
    /\ run \in 1..MaxRuns
    /\ work \in 0..MaxWork

----------------------------------------------------------------------------
(* Properties *)

Count(s, x) == Cardinality({ i \in 1..Len(s) : s[i] = x })

Completed(step) == step \in Range(history)

Classifying == pc \in { "exports_classify", "imports_classify" } /\ stack # << >>

\* C1: within one generation run the visited-type set only grows and holds
\* each type identifier at most once; recording an identifier that is already
\* a member leaves the set as it is; and generate_conversions emits exactly
\* one implementation for each identifier of the set, however often the
\* signatures referred to it.
C1_VisitedSetGrowsOnce ==
    [][ run' = run =>
          /\ Range(visited_types) \subseteq Range(visited_types')
          /\ \A t \in TypeIds : Count(visited_types', t) <= 1
          /\ (Classifying /\ Head(stack) \in Range(visited_types))
                => visited_types' = visited_types
          /\ \A t \in TypeIds : Count(conversions', t) <= 1
          /\ conversions' # conversions
                => \A t \in Range(visited_types) : Count(conversions', t) = 1 ]_vars

\* C1 witness: a run ended in which the signatures referred to some type more
\* often than once (more classifier visits than distinct types) and the
\* conversions of two or more types were emitted.
C1_Witness ==
    /\ op = "wrapper"
    /\ pc = "done"
    /\ Len(visited_types) >= 2
    /\ work > Len(visited_types)
    /\ Len(conversions) = Len(visited_types)

\* The number of references the classifier can follow in a tree: the types of
\* the signatures plus the child references of the type graph.
Edges(tree) == { << t, c >> \in TypeIds \X TypeIds : c \in Children(tree.shape, t) }

References(tree) == Len(tree.exportRoots) + Len(tree.importRoots) + Cardinality(Edges(tree))

\* C2: for every type graph, cyclic ones included, classification terminates:
\* the classifier makes at most one visit per reference of the model, the
\* visited set never holds more than the model's distinct type identifiers,
\* and every call reaches its end.
C2_ClassificationTerminates ==
    /\ [](work <= References(wit) /\ Len(visited_types) <= Cardinality(TypeIds))
    /\ <>[](pc \in { "done", "failed" })

\* C2 witness: the classification of a cyclic type graph has ended with every
\* type of the cycle visited.
C2_Witness ==
    /\ pc = "conversions"
    /\ wit.shape \in { "ring", "complete" }
    /\ \E i \in 1..Len(wit.importRoots) : wit.importRoots[i] \in Range(wit.exportRoots)
    /\ Range(visited_types) = TypeIds

\* The types reachable from a set of types along child references.
RECURSIVE ReachableFrom(_, _)
ReachableFrom(tree, S) ==
    LET more == S \cup UNION { Children(tree.shape, t) : t \in S }
    IN  IF more = S THEN S ELSE ReachableFrom(tree, more)

\* The types the export and the import pass record: those the exported and
\* the imported signatures refer to, directly or through other types.
SignatureTypes(tree) ==
    ReachableFrom(tree, Range(tree.exportRoots) \cup Range(tree.importRoots))

\* C3: conversions are emitted only after the export and the import pass have
\* both completed, for exactly the types these passes recorded, and the
\* visited set does not change afterwards.
C3_ConversionsAfterBothPasses ==
    (Completed("conversions") \/ conversions # << >>) =>
        /\ Completed("exports")
        /\ Completed("imports")
        /\ Range(conversions) = SignatureTypes(wit)
        /\ Range(visited_types) = Range(conversions)

\* C3 witness: a run ended whose conversions include a type that only the
\* import pass recorded.
C3_Witness ==
    /\ pc = "done"
    /\ op = "wrapper"
    /\ \E t \in Range(conversions) : t \notin ReachableFrom(wit, Range(wit.exportRoots))

\* C4: when WIT resolution or world selection fails, generate_wrapper_crate
\* and generate_dts return the error having created directories only: no
\* file was written or copied under the output path.
C4_ResolutionFailureWritesNoFile ==
    (result = "err" /\ err.step = "resolve") =>
        /\ err.cause \in { "invalid WIT", "no such world", "no world", "ambiguous default world" }
        /\ files = files0
        /\ outWit = outWit0
        /\ copied = << >>
        /\ dts = << >>

\* C4 witness: the call failed selecting the world, after the directories
\* were created.
C4_Witness ==
    /\ result = "err"
    /\ err.context = << "Failed to select WIT world" >>
    /\ OutputRoot \in dirs

\* The directory of a dependency package relative to the WIT root, when all
\* its source files lie in one.
DirectoriesOf(package) ==
    { Parent(SubSeq(f, Len(WitRoot) + 1, Len(f))) : f \in package.sources.paths }

\* Every dependency lies in one sub-directory of the WIT root, and no two
\* dependencies lie in the same.
OneDirectoryPerDependency(tree) ==
    /\ \A i \in 1..Len(tree.deps) :
          /\ tree.deps[i].sources.known
          /\ Cardinality(DirectoriesOf(tree.deps[i])) = 1
    /\ \A i, j \in 1..Len(tree.deps) :
          i # j => DirectoriesOf(tree.deps[i]) # DirectoriesOf(tree.deps[j])

ManifestWritten == Completed("cargo_toml") /\ CargoTomlPath \in DOMAIN files

\* C5: for a WIT package whose N dependencies lie in N distinct
\* sub-directories, one each, the dependency table of the manifest has
\* exactly N entries, one per dependency, with the dependency's directory
\* (under the copy of the WIT root, wit/) as its path.
C5_OneEntryPerDependency ==
    (ManifestWritten /\ OneDirectoryPerDependency(wit)) =>
        LET table == files[CargoTomlPath].dependencies
        IN  /\ Cardinality(DOMAIN table) = Len(wit.deps)
            /\ \A i \in 1..Len(wit.deps) :
                  \E k \in DOMAIN table :
                     { table[k] } = { << "wit" >> \o d : d \in DirectoriesOf(wit.deps[i]) }

\* The packages of a tree whose source files lie in more than one directory.
SplitPackages(tree) ==
    { i \in 1..Len(tree.deps) :
        tree.deps[i].sources.known /\ Cardinality(DirectoriesOf(tree.deps[i])) > 1 }

\* C6: if a package of the resolved model has source files in more than one
\* directory, generate_wrapper_crate fails when it assembles the manifest,
\* with the error that names such a package (the first in the model), and
\* no manifest is written from a merged or a chosen directory.
C6_SplitPackageFailsGeneration ==
    (op = "wrapper" /\ SplitPackages(wit) # { }) =>
        /\ pc \in { "create_dirs", "resolve", "cargo_toml", "failed" }
        /\ files = NoFiles
        /\ (pc = "failed" /\ err.step = "cargo_toml") =>
              /\ err.cause = "multiple source directories"
              /\ \E i \in SplitPackages(wit) :
                    /\ err.package = wit.deps[i].name
                    /\ \A j \in SplitPackages(wit) : i <= j

\* C6 witness: generation failed naming the second dependency, the one whose
\* files lie in two directories, after the first was accepted.
C6_Witness ==
    /\ pc = "failed"
    /\ err.cause = "multiple source directories"
    /\ Len(wit.deps) = 2
    /\ SplitPackages(wit) = { 2 }
    /\ err.package = wit.deps[2].name
    /\ world_name # "none"

\* C7, as the specification words it: when a module spec uses the composition mode, the world is
\* rewritten before the WIT tree is copied to the output directory; so once
\* the tree has been copied the rewrite has been made.
C7_RewriteBeforeCopy ==
    (op = "wrapper" /\ uses_composition(js_modules) /\ Completed("copy_wit"))
        => Completed("get_script")

\* C7 as amended: the WIT tree is copied to <output>/wit first, and the world
\* of that copy is rewritten afterwards; when the rewrite step has completed,
\* the copy is the caller's tree with the script-fetching import added.
C7_CopyBeforeRewrite ==
    (op = "wrapper" /\ Completed("get_script")) =>
        /\ Completed("copy_wit")
        /\ outWit.trees = << wit >>
        /\ uses_composition(js_modules) => outWit.synthetic > 0

\* C7 witness: the copy of a composition run has been rewritten.
C7_Witness ==
    /\ pc = "copy_js"
    /\ uses_composition(js_modules)
    /\ outWit.trees = << wit >>
    /\ outWit.synthetic = 1

\* C8: the output world holds the synthetic import if and only if some module
\* spec has the Composition mode, it holds it once however many specs have
\* that mode, and the caller's WIT tree is never modified.
C8_SyntheticImportIffComposition ==
    /\ [](outWit.synthetic <= 1)
    /\ [](Completed("get_script") =>
            (outWit.synthetic = 1 <=>
                \E i \in 1..Len(js_modules) : js_modules[i].mode.kind = "Composition"))
    /\ [][wit' = wit]_vars

\* C8 witness: a run ended in which two specs have the Composition mode and
\* the output world holds the import once.
C8_Witness ==
    /\ pc = "done"
    /\ Len(js_modules) = 2
    /\ \A i \in 1..Len(js_modules) : js_modules[i].mode.kind = "Composition"
    /\ outWit.synthetic = 1

\* The documented destination of a module name: src/, then the name
\* with '_' wherever it has '/', then .js.
IsDestinationOf(path, name) ==
    /\ Len(path) = Len(name) + 2
    /\ path[1] = "src"
    /\ path[Len(path)] = ".js"
    /\ \A i \in 1..Len(name) :
          /\ name[i] = "/" => path[i + 1] = "_"
          /\ name[i] # "/" => path[i + 1] = name[i]

\* C9: copy_js_modules copies a file for exactly the specs whose mode is
\* EmbedFile, each from its source to <output>/src/<name with '/' replaced
\* by '_'>.js, and copies none for a spec whose mode is Composition.
C9_CopiesExactlyEmbeddedModules ==
    /\ \A k \in 1..Len(copied) :
          /\ js_modules[copied[k].spec].mode.kind = "EmbedFile"
          /\ copied[k].from = js_modules[copied[k].spec].mode.source
          /\ IsDestinationOf(copied[k].to, js_modules[copied[k].spec].name)
          /\ copied[k].to \in DOMAIN files
    /\ Completed("copy_js") =>
          /\ { copied[k].spec : k \in 1..Len(copied) }
                = { i \in 1..Len(js_modules) : js_modules[i].mode.kind = "EmbedFile" }
          /\ \A i \in 1..Len(js_modules) : Count([k \in 1..Len(copied) |-> copied[k].spec], i) <= 1

\* C9 witness: the copies are done for a list of one Composition and one
\* EmbedFile spec, and one file was copied.
C9_Witness ==
    /\ Completed("copy_js")
    /\ Len(js_modules) = 2
    /\ js_modules[1].mode.kind = "Composition"
    /\ js_modules[2].mode.kind = "EmbedFile"
    /\ Len(copied) = 1

\* An interface with no name or no owning package.
Anonymous(interface) == interface.name = "none" \/ interface.package = "none"

\* C10: no Imported-Interface view is made for an anonymous interface: a
\* world that imports one makes generation fail in the import pass, with the
\* error of get_imported_interface, and never complete without that import.
C10_AnonymousImportFails ==
    (\E i \in 1..Len(wit.imports) : Anonymous(wit.imports[i])) =>
        /\ result # "ok"
        /\ ~Completed("imports")
        /\ ~Completed("ts_imports")
        /\ pc \notin { "imports_classify", "conversions", "done" }
        /\ (pc = "failed" /\ err.step \in { "imports", "ts_imports" }) =>
              err.cause \in { "Interface import does not have a name",
                              "Anonymous interface imports are not supported yet" }

\* C10 witness: generation failed in the import pass on an interface that has
\* a name and no owning package.
C10_Witness ==
    /\ op = "wrapper"
    /\ pc = "failed"
    /\ err.step = "imports"
    /\ err.cause = "Anonymous interface imports are not supported yet"

\* C11: two imported interfaces with different (package, interface) pairs
\* never get the same module name.
C11_ModuleNamesCollisionFree ==
    (probe.fn = "module_name" /\ probe.args[1] # probe.args[2])
        => answer[1] # answer[2]

\* The rule for exported-ness, read off the owner and the selected world's
\* export table alone.
ExportedByRule(resolve, world, t) ==
    /\ t \in DOMAIN resolve.owners
    /\ \/ /\ resolve.owners[t] = OwnerWorld(world)
          /\ ItemType(t) \in resolve.exports[world]
       \/ \E i \in InterfaceIds :
             /\ resolve.owners[t] = OwnerInterface(i)
             /\ ItemInterface(i) \in resolve.exports[world]

\* C12: once the world is selected, is_exported_type is true exactly for a
\* type owned by the selected world that the world's exports contain and for
\* a type owned by an interface the world exports, false for a type of
\* another world, a type without owner and an unknown identifier, and its
\* result is the same before and after every step of the run, whatever the
\* visited-type set holds.
C12_ExportedTypeIsFixed ==
    [][ (run' = run /\ world_name # "none" /\ world_name' # "none") =>
          \A t \in 0..NumTypes :
             /\ is_exported_type(wit, world_name, t) <=> ExportedByRule(wit, world_name, t)
             /\ is_exported_type(wit', world_name', t) <=> ExportedByRule(wit, world_name, t)
      ]_vars

\* C12 witness: a run ended, with types visited, in which type 1 belongs to
\* the selected world and is exported by it, another type belongs to an
\* interface the world does not export, and identifier 0 is unknown.
C12_Witness ==
    /\ pc = "done"
    /\ op = "wrapper"
    /\ visited_types # << >>
    /\ wit.owners[1] = OwnerWorld(world_name)
    /\ is_exported_type(wit, world_name, 1)
    /\ ~is_exported_type(wit, world_name, NumTypes)
    /\ ~is_exported_type(wit, world_name, 0)

\* C13: a second generate_wrapper_crate with the same arguments, run on the
\* output of a successful first one, ends with the output tree the first one
\* left: the same files with the same content, the same WIT copy, and no
\* directory added.
C13_RerunReproducesOutput ==
    /\ [](( op = "wrapper" /\ run > 1 /\ pc = "done" )
            => ( files = files0 /\ outWit = outWit0 ))
    /\ [][ (op = "wrapper" /\ run > 1 /\ run' = run) => dirs' = dirs ]_vars

\* C13 witness: the second run of a call with a composed module ended, on an
\* output that holds the package and the rewritten WIT copy.
C13_Witness ==
    /\ op = "wrapper"
    /\ run = 2
    /\ pc = "done"
    /\ uses_composition(js_modules)
    /\ outWit.synthetic = 1
    /\ CargoTomlPath \in DOMAIN files
    /\ ConversionsPath \in DOMAIN files

\* The files each step of generate_wrapper_crate puts under the output path.
PartsOf(step) ==
    CASE step = "cargo_toml" -> { CargoTomlPath }
      [] step = "app_manifest" -> { GolemYamlPath }
      [] step = "skeleton" -> Range(SkeletonFiles)
      [] step = "cargo_config" -> { CargoConfigPath }
      [] step = "copy_js" ->
            { JsDest(js_modules[i]) :
                i \in { j \in 1..Len(js_modules) : js_modules[j].mode.kind = "EmbedFile" } }
      [] step = "exports" -> { LibRsPath }
      [] step = "imports" -> Range(ModulePaths(wit.imports))
      [] step = "conversions" -> { ConversionsPath }
      [] OTHER -> { }

\* The files the running call has created or changed.
Touched == { p \in DOMAIN files : p \notin DOMAIN files0 \/ files[p] # files0[p] }

\* C14, as the specification words it: a call that returned an error has
\* left none of the package's files in the output directory.
C14_AllOrNothing ==
    (op = "wrapper" /\ run = 1 /\ result = "err")
        => (files = NoFiles /\ outWit = NoWit)

\* C14, amended: nothing is rolled back. What the completed steps wrote stays
\* in the output directory, also when a later step fails; a call that
\* returned an error has written nothing that belongs to a step after the
\* failing one; and a call that returned Ok has left the whole package.
C14_NoRollbackNoLaterStep ==
    op = "wrapper" =>
        /\ \A step \in Range(history) : PartsOf(step) \subseteq DOMAIN files
        /\ "copy_wit" \in Range(history) => outWit.exists
        /\ result = "err" =>
              /\ \A p \in Touched :
                    \E step \in Range(history) \cup { err.step } : p \in PartsOf(step)
              /\ outWit # outWit0
                    => \E step \in Range(history) \cup { err.step } :
                          step \in { "copy_wit", "get_script" }
        /\ result = "ok" =>
              /\ \A step \in Range(WrapperSteps) : PartsOf(step) \subseteq DOMAIN files
              /\ outWit.exists

\* C14 witness: the first call failed in its last step; the manifest, the
\* skeleton, the WIT copy and the export module are in the output directory,
\* the conversions module is not.
C14_Witness ==
    /\ op = "wrapper"
    /\ run = 1
    /\ result = "err"
    /\ err.step = "conversions"
    /\ { CargoTomlPath, GolemYamlPath, LibRsPath } \subseteq DOMAIN files
    /\ outWit.exists
    /\ ConversionsPath \notin DOMAIN files

\* C15: a generate_dts call, whether it succeeds or fails, writes nothing
\* but declaration files: no manifest, deployment manifest, skeleton source,
\* WIT copy, JavaScript module or generated module, no directory but the
\* output directory itself, and it records no visited type; when it returns
\* Ok its result is the declaration file of the exports followed by those of
\* the imported interfaces, in their order.
C15_DtsWritesDeclarationsOnly ==
    op = "dts" =>
        /\ \A p \in DOMAIN files : files[p].kind = "declarations"
        /\ \A step \in Range(WrapperSteps) : PartsOf(step) \cap DOMAIN files = { }
        /\ dirs \subseteq { OutputRoot }
        /\ outWit = NoWit
        /\ copied = << >>
        /\ conversions = << >>
        /\ visited_types = << >>
        /\ result = "ok" =>
              dts = << ExportsDtsPath >>
                      \o [i \in 1..Len(wit.imports) |-> ImportDtsPath(wit.imports[i])]

\* C15 witness: a generate_dts call on a world with imported interfaces
\* returned Ok with more than one declaration file.
C15_Witness ==
    /\ op = "dts"
    /\ result = "ok"
    /\ Len(wit.imports) > 0
    /\ Len(dts) = 1 + Len(wit.imports)
    /\ ExportsDtsPath \in DOMAIN files

\* C16: the error a failed generate_wrapper_crate returns carries at least
\* one context message naming the step that failed.
C16_EveryErrorHasContext ==
    (op = "wrapper" /\ result = "err") => err.context # << >>

\* C17: a generation run called without the cargo-config flag writes nothing
\* under <output>/.cargo, and a run called with it copies the skeleton's
\* .cargo files.
C17_CargoConfigOnlyOnRequest ==
    op = "wrapper" =>
        /\ ~include_cargo_config
              => (CargoDir \notin dirs /\ CargoConfigPath \notin DOMAIN files)
        /\ (include_cargo_config /\ result = "ok")
              => CargoConfigPath \in DOMAIN files

\* C19: a --js-modules value without '=' is rejected; any other value is
\* accepted, its name is the text before the first '=' (so the name holds no
\* '='), and its mode is Composition exactly when the text after that '=' is
\* "@composition", and otherwise EmbedFile of that text, be it empty or
\* with further '=' in it.
C19_SplitAtFirstEquals ==
    probe.fn = "from_str" =>
        LET text == probe.args[1]
        IN  IF "=" \notin Range(text)
            THEN ~answer.ok
            ELSE /\ answer.ok
                 /\ "=" \notin Range(answer.name)
                 /\ \E rest \in ArgTexts :
                       /\ text = answer.name \o << "=" >> \o rest
                       /\ answer.mode.kind = "Composition" <=> rest = CompositionLiteral
                       /\ answer.mode.kind # "Composition"
                             => answer.mode = [kind |-> "EmbedFile", source |-> rest]

\* C19 witness: an accepted value whose path has a '=' of its own.
C19_Witness ==
    /\ probe.fn = "from_str"
    /\ answer.ok
    /\ answer.name # << >>
    /\ answer.mode.kind = "EmbedFile"
    /\ "=" \in Range(answer.mode.source)

\* The order of the steps as documented.
DocumentedOrder ==
    << "create_dirs", "resolve", "cargo_toml", "app_manifest", "skeleton",
       "cargo_config", "copy_wit", "get_script", "copy_js", "exports", "imports",
       "conversions" >>

\* C20: the steps a generate_wrapper_crate call has completed are always the
\* first ones of the documented order, each once; a call that returned an
\* error failed in the step right after the completed ones and takes no
\* step after that; and the call returns Ok exactly when all twelve steps
\* have completed.
C20_FixedOrderStopAtFirstFailure ==
    /\ [](op = "wrapper" =>
            /\ IsPrefix(history, DocumentedOrder)
            /\ result = "err" =>
                  /\ pc = "failed"
                  /\ Len(history) < Len(DocumentedOrder)
                  /\ err.step = DocumentedOrder[Len(history) + 1]
            /\ result = "ok" <=> history = DocumentedOrder)
    /\ [][ pc # "failed" ]_vars

\* C20 witness: a call failed while copying the JavaScript modules, after
\* the eight steps before that one and before the three after it.
C20_Witness ==
    /\ op = "wrapper"
    /\ result = "err"
    /\ err.step = "copy_js"
    /\ history = SubSeq(DocumentedOrder, 1, 8)

\* C18: in every sequence of constructor, get-value and drop calls of the
\* host, a get-value that succeeds returns the value the handle's
\* constructor was given, a get-value on a handle that was never dropped
\* succeeds, and a get-value on a handle that has been dropped fails, however
\* many calls were made since.
C18_GetValueUntilDisposed ==
    (reply.call = "get-value") =>
        /\ reply.ok => reply.value = given[reply.handle]
        /\ reply.ok <=> reply.handle \notin disposed

\* C18 witness: two handles constructed with different values; the first has
\* been dropped and a get-value on it has just failed.
C18_Witness ==
    /\ Len(given) >= 2
    /\ given[1] # given[2]
    /\ handles[2].live
    /\ 1 \in disposed
    /\ reply = [call |-> "get-value", handle |-> 1, ok |-> FALSE, value |-> "none"]

\* The packages of the tree, by position, that have known source files in a
\* directory below the WIT root.
BelowRoot(tree) ==
    { i \in 1..Len(Packages(tree)) :
        /\ Packages(tree)[i].sources.known
        /\ DirectoriesOf(Packages(tree)[i]) # { << >> } }

\* The name of the package at position i, without its version.
NameOnly(tree, i) == [name |-> Packages(tree)[i].name.name, version |-> "none"]

====
